---- MODULE Spec2Model ----
(***************************************************************************)
(* Account lifecycle of django-couchdb-utils: the User document            *)
(* (django_couchdb_utils/auth/models.py) and the registration workflow     *)
(* (registration/models.py): create_inactive_user, activate_user,          *)
(* delete_expired_users and RegistrationUser.activation_key_expired.       *)
(*                                                                         *)
(* Modelling conventions                                                   *)
(*  - the CouchDB database is the function store: document id -> document; *)
(*  - documents read back from the views carry the RegistrationUser        *)
(*    methods (activation_key_expired is callable on them);                *)
(*  - the body of the try: block of activate_user is read as a plain       *)
(*    block (no handler is written in the source);                         *)
(*  - time is counted in ticks of twelve hours; date_joined is taken from  *)
(*    datetime.utcnow, the expiry test reads datetime.now(), the local     *)
(*    clock, tz ticks ahead of UTC;                                        *)
(*  - sha1 is an injective function of its input, hex-encoded on 40        *)
(*    characters.                                                          *)
(***************************************************************************)
EXTENDS Integers, Sequences, FiniteSets, TLC

\* ------------------------------------------------------------------ bounds
MaxDocs == 2
ACCOUNT_ACTIVATION_DAYS == 1
\* a number of days, in ticks of twelve hours
Days(n) == 2 * n
MaxTime == Days(ACCOUNT_ACTIVATION_DAYS) + 1

DocIds == 1 .. MaxDocs
NoId == 0
Usernames == {"alice", "bob"}
Emails == {"a@x.com"}
Passwords == {"pw"}
PwSalts == {"5a1f0"}
KeySalts == {"0", "1"}
TzOffsets == {0 - 1, 0, 1}
NoKey == << >>

\* ------------------------------------------------------- activation keys
HexChars == {"a", "b", "c", "d", "e", "f",
             "0", "1", "2", "3", "4", "5", "6", "7", "8", "9"}

\* a variant that counts the characters and does not look at them
SHA1_RE_search_LengthOnly(key) ==
    Len(key) = 40

\* SHA1_RE = re.compile('^[a-f0-9]{40}$'), used with .search: forty
\* characters of [a-f0-9] from the start, and '$' matches at the end of the
\* string or just before a newline that ends it.
SHA1_RE_search(key) ==
    /\ Len(key) \in {40, 41}
    /\ \A i \in 1 .. 40 : key[i] \in HexChars
    /\ Len(key) = 41 => key[41] = "\n"

UserChar(username) == IF username = "alice" THEN "a" ELSE "b"

\* sha_constructor(salt+username).hexdigest(): 40 hex characters, distinct
\* for distinct (salt, username).
sha_hexdigest(salt, username) ==
    [i \in 1 .. 40 |-> IF i = 1 THEN salt
                       ELSE IF i = 2 THEN UserChar(username) ELSE "0"]

\* create_profile: the key put on the in-memory user object.
create_profile(user, salt) ==
    [user EXCEPT !.activation_key = sha_hexdigest(salt, user.username)]

\* -------------------------------------------------------------- passwords
\* django's get_hexdigest(algo, salt, raw): a digest, distinct for distinct
\* arguments, that holds no '$'
get_hexdigest(algo, salt, raw) == "(" \o algo \o "," \o salt \o "," \o raw \o ")"

\* a variant that digests the raw password without the salt it stores
set_password_Unsalted(raw_password, salt) ==
    "sha1" \o "$" \o salt \o "$" \o get_hexdigest("sha1", "", raw_password)

\* User.set_password: '%s$%s$%s' % (algo, salt, hsh); salt is the five
\* characters drawn at random
set_password(raw_password, salt) ==
    LET algo == "sha1"
        hsh == get_hexdigest(algo, salt, raw_password)
    IN  algo \o "$" \o salt \o "$" \o hsh

\* enc_password.split('$')
RECURSIVE split(_)
split(str) ==
    LET dollars == {i \in 1 .. Len(str) : SubSeq(str, i, i) = "$"}
        first == CHOOSE i \in dollars : \A j \in dollars : i <= j
    IN  IF dollars = {} THEN <<str>>
        ELSE <<SubSeq(str, 1, first - 1)>> \o split(SubSeq(str, first + 1, Len(str)))

\* User.check_password -> django's check_password(raw_password, enc_password):
\* algo, salt, hsh = enc_password.split('$'); hsh == get_hexdigest(algo, salt, raw)
check_password(raw_password, enc_password) ==
    LET parts == split(enc_password)
    IN  IF Len(parts) # 3 THEN "ValueError"
        ELSE IF parts[3] = get_hexdigest(parts[1], parts[2], raw_password)
        THEN "True" ELSE "False"

\* django's UNUSABLE_PASSWORD
UNUSABLE_PASSWORD == "!"

\* User.set_unusable_password
set_unusable_password == UNUSABLE_PASSWORD

\* a variant that takes any non-empty password for usable
has_usable_password_NonEmpty(password) ==
    password # ""

\* User.has_usable_password
has_usable_password(password) ==
    password # UNUSABLE_PASSWORD

\* ------------------------------------------------------------------ state
\* store: the database, document id -> User document
\* objs:  the activation_key of the User object create_inactive_user
\*        returned for a document (the object the caller holds; its key was
\*        set by create_profile after the save and is not in the database)
\* now:   datetime.utcnow(), in ticks;  tz: local time minus UTC, in ticks
\* last:  the last call: operation, result, the document it worked on and
\*        the number of view queries and of document writes it made
\* pwuser: a User object in memory, its password field and the last
\*        password method called on it (the credential methods do no I/O)
\* regs:  the create_inactive_user calls in flight, one per request
\* activation: an activate_user call in flight
\* sweep: a delete_expired_users run in flight
VARIABLES store, objs, now, tz, last, pwuser, regs, activation, sweep
inflight == <<pwuser, regs, activation, sweep>>
vars == <<store, objs, now, tz, last, pwuser, regs, activation, sweep>>

NoOp == [op |-> "none", ret |-> "None", hit |-> NoId, reads |-> 0, writes |-> 0,
         flt |-> "None"]

\* --------------------------------------------------------- the user store
\* the view users_by_username, rows keyed [username, is_active]
ViewByUsername(s, username, is_active) ==
    {i \in DOMAIN s : s[i].username = username /\ s[i].is_active = is_active}

MinId(ids) == CHOOSE i \in ids : \A j \in ids : i <= j

\* a variant whose range scan meets the active rows first
get_user_ActiveFirst(s, username, flt) ==
    LET inact == {i \in DOMAIN s : s[i].username = username /\ ~s[i].is_active}
        act == {i \in DOMAIN s : s[i].username = username /\ s[i].is_active}
    IN  IF flt = "False"
        THEN IF inact # {} THEN CHOOSE i \in inact : \A j \in inact : i <= j ELSE NoId
        ELSE IF act # {} THEN CHOOSE i \in act : \A j \in act : i <= j
        ELSE IF flt = "None" /\ inact # {}
        THEN CHOOSE i \in inact : \A j \in inact : i <= j ELSE NoId

\* User.get_user: flt is "None" (range [username,False]..[username,True]),
\* "True" or "False" (one key); r.first() is the first row in key order,
\* false before true, rows of one key in document id order.
get_user(s, username, flt) ==
    LET inact == ViewByUsername(s, username, FALSE)
        act == ViewByUsername(s, username, TRUE)
    IN  IF flt = "None"
        THEN IF inact # {} THEN MinId(inact)
             ELSE IF act # {} THEN MinId(act) ELSE NoId
        ELSE IF flt = "True"
        THEN IF act # {} THEN MinId(act) ELSE NoId
        ELSE IF inact # {} THEN MinId(inact) ELSE NoId

\* User.check_username
check_username(s, self_id, username) ==
    LET u == get_user(s, username, "None")
    IN  IF self_id = NoId \/ u = NoId THEN TRUE ELSE u = self_id

\* the view registration/users_by_activation_key with key=activation_key
users_by_activation_key(s, key) ==
    {i \in DOMAIN s : s[i].activation_key # NoKey /\ s[i].activation_key = key}

\* datetime.timedelta(days=settings.ACCOUNT_ACTIVATION_DAYS), in ticks
expiration_date == Days(ACCOUNT_ACTIVATION_DAYS)

\* a variant that never looks at the date
activation_key_expired_NoDate(user, localnow) ==
    user.activation_key # NoKey

\* a variant that tests the key alone, for the sentinel, and not the date
activation_key_expired_KeyOnly(user, localnow) ==
    user.activation_key = NoKey

\* RegistrationUser.activation_key_expired, localnow = datetime.datetime.now():
\* getattr(self, 'activation_key', False) is true of a key that is set
activation_key_expired(user, localnow) ==
    \/ user.activation_key # NoKey
    \/ user.date_joined + expiration_date <= localnow

LocalNow == now + tz

\* ------------------------------------------------------------------- init
\* no password method called yet, no call in flight
\* password "" is the field not set; setter is the method that last assigned
\* it, raw the password that method was given
NoPwUser == [password |-> "", setter |-> "none", raw |-> "", was_unusable |-> FALSE,
             op |-> "none", arg |-> "", ret |-> "None"]
Requests == {"r1", "r2"}
IdleReg == [p \in Requests |-> [pc |-> "idle"]]
IdleAct == [pc |-> "idle"]
IdleSweep == [pc |-> "idle"]
Idle ==
    /\ pwuser = NoPwUser
    /\ regs = IdleReg
    /\ activation = IdleAct
    /\ sweep = IdleSweep

Init ==
    /\ store = << >>
    /\ objs = << >>
    /\ now = 0
    /\ tz \in TzOffsets
    /\ last = NoOp
    /\ Idle

\* ---------------------------------------------------------------- actions
\* create_inactive_user(username, email, password, site, send_email); id is
\* the document id the database assigns on the first save.
CreateInactiveUser(username, email, password, pwsalt, keysalt, send_email, id) ==
    LET new_user == [username |-> username, email |-> email,
                     password |-> set_password(password, pwsalt),
                     is_active |-> FALSE, date_joined |-> now,
                     activation_key |-> NoKey]
        ok == check_username(store, NoId, username)
        profiled == create_profile(new_user, keysalt)
        rest == [i \in DOMAIN objs \ {id} |-> objs[i]]
    IN  /\ id \in DocIds \ DOMAIN store
        /\ IF ~ok
           THEN /\ UNCHANGED <<store, objs>>
                /\ last' = [NoOp EXCEPT !.op = "create_inactive_user",
                                        !.ret = "Exception", !.reads = 1]
           ELSE /\ store' = (id :> new_user) @@ store
                /\ IF send_email
                   THEN \* line 72: the name user is not bound
                        /\ objs' = rest
                        /\ last' = [NoOp EXCEPT !.op = "create_inactive_user",
                                                !.ret = "NameError", !.hit = id,
                                                !.reads = 1, !.writes = 1]
                   ELSE /\ objs' = (id :> profiled.activation_key) @@ rest
                        /\ last' = [NoOp EXCEPT !.op = "create_inactive_user",
                                                !.ret = "User", !.hit = id,
                                                !.reads = 1, !.writes = 1]
        /\ UNCHANGED <<now, tz, inflight>>

\* activate_user(activation_key)
ActivateUser(activation_key) ==
    LET r == users_by_activation_key(store, activation_key)
        user == MinId(r)
        activated == [store[user] EXCEPT !.activation_key = NoKey, !.is_active = TRUE]
    IN  /\ IF ~SHA1_RE_search(activation_key)
           THEN /\ store' = store
                /\ last' = [NoOp EXCEPT !.op = "activate_user", !.ret = "False"]
           ELSE IF r = {}
           THEN /\ store' = store
                /\ last' = [NoOp EXCEPT !.op = "activate_user", !.ret = "False",
                                        !.reads = 1]
           ELSE IF activation_key_expired(store[user], LocalNow)
           THEN \* falls off the end of the function: returns None
                /\ store' = store
                /\ last' = [NoOp EXCEPT !.op = "activate_user", !.ret = "None",
                                        !.hit = user, !.reads = 1]
           ELSE IF check_username(store, user, activated.username)
           THEN /\ store' = [store EXCEPT ![user] = activated]
                /\ last' = [NoOp EXCEPT !.op = "activate_user", !.ret = "User",
                                        !.hit = user, !.reads = 2, !.writes = 1]
           ELSE /\ store' = store
                /\ last' = [NoOp EXCEPT !.op = "activate_user", !.ret = "Exception",
                                        !.hit = user, !.reads = 2]
        /\ UNCHANGED <<objs, now, tz, inflight>>

\* a variant without the is_active test
ShouldDelete_AnyUser(user, localnow) ==
    activation_key_expired(user, localnow)

\* the test of delete_expired_users on one user of User.all_users()
ShouldDelete(user, localnow) ==
    activation_key_expired(user, localnow) /\ ~user.is_active

\* delete_expired_users()
DeleteExpiredUsers ==
    LET gone == {i \in DOMAIN store : ShouldDelete(store[i], LocalNow)}
    IN  /\ store' = [i \in DOMAIN store \ gone |-> store[i]]
        /\ last' = [NoOp EXCEPT !.op = "delete_expired_users", !.reads = 1,
                                !.writes = Cardinality(gone)]
        /\ UNCHANGED <<objs, now, tz, inflight>>

\* User.save() of a persisted document after is_active was assigned: the
\* object is the one create_inactive_user returned (held, carrying its
\* activation_key) or one read back from the store.
Save(id, held, is_active) ==
    /\ id \in DOMAIN store
    /\ held => id \in DOMAIN objs
    /\ LET base == IF held THEN [store[id] EXCEPT !.activation_key = objs[id]]
                   ELSE store[id]
           self == [base EXCEPT !.is_active = is_active]
       IN  IF check_username(store, id, self.username)
           THEN /\ store' = [store EXCEPT ![id] = self]
                /\ last' = [NoOp EXCEPT !.op = "save", !.hit = id,
                                        !.reads = 1, !.writes = 1]
           ELSE /\ store' = store
                /\ last' = [NoOp EXCEPT !.op = "save", !.ret = "Exception",
                                        !.hit = id, !.reads = 1]
    /\ UNCHANGED <<objs, now, tz, inflight>>

\* the clocks advance
Tick ==
    /\ now < MaxTime
    /\ now' = now + 1
    /\ last' = NoOp
    /\ UNCHANGED <<store, objs, tz, inflight>>

\* the keys activate_user is called with: every key create_profile can
\* generate, and keys that are no sha1 hex digest
GoodKeys == {sha_hexdigest(s, u) : s \in KeySalts, u \in Usernames}
OddKeys ==
    { << >>,
      [i \in 1 .. 39 |-> "0"],
      [i \in 1 .. 40 |-> IF i = 1 THEN "A" ELSE "0"],
      [i \in 1 .. 41 |-> IF i = 41 THEN "\n" ELSE "0"] }
TestKeys == GoodKeys \cup OddKeys

Next ==
    \/ \E username \in Usernames, email \in Emails, password \in Passwords,
          pwsalt \in PwSalts, keysalt \in KeySalts, send_email \in BOOLEAN,
          id \in DocIds :
          CreateInactiveUser(username, email, password, pwsalt, keysalt, send_email, id)
    \/ \E key \in TestKeys : ActivateUser(key)
    \/ DeleteExpiredUsers
    \/ \E id \in DocIds, held \in BOOLEAN, is_active \in BOOLEAN : Save(id, held, is_active)
    \/ Tick

Spec == Init /\ [][Next]_vars

\* ---------------------------------------------------------------- lookups
\* the view users_by_email, rows keyed [email, is_active]
ViewByEmail(s, email, is_active) ==
    {i \in DOMAIN s : s[i].email = email /\ s[i].is_active = is_active}

\* User.get_user_by_email: as get_user, on the view users_by_email
get_user_by_email(s, email, flt) ==
    LET inact == ViewByEmail(s, email, FALSE)
        act == ViewByEmail(s, email, TRUE)
    IN  IF flt = "None"
        THEN IF inact # {} THEN MinId(inact)
             ELSE IF act # {} THEN MinId(act) ELSE NoId
        ELSE IF flt = "True"
        THEN IF act # {} THEN MinId(act) ELSE NoId
        ELSE IF inact # {} THEN MinId(inact) ELSE NoId

\* the values of the is_active argument: None, True, False
Filters == {"None", "True", "False"}

\* a call of User.get_user(username, is_active)
GetUser(username, flt) ==
    LET u == get_user(store, username, flt)
    IN  /\ last' = [NoOp EXCEPT !.op = "get_user", !.hit = u, !.flt = flt,
                                !.ret = IF u = NoId THEN "None" ELSE "User",
                                !.reads = 1]
        /\ UNCHANGED <<store, objs, now, tz, inflight>>

\* a call of User.get_user_by_email(email, is_active)
GetUserByEmail(email, flt) ==
    LET u == get_user_by_email(store, email, flt)
    IN  /\ last' = [NoOp EXCEPT !.op = "get_user_by_email", !.hit = u, !.flt = flt,
                                !.ret = IF u = NoId THEN "None" ELSE "User",
                                !.reads = 1]
        /\ UNCHANGED <<store, objs, now, tz, inflight>>

\* the lookups read username, email and is_active: the specification of the
\* lookups runs them among the operations that write these fields
NextFind ==
    \/ \E username \in Usernames, email \in Emails, password \in Passwords,
          pwsalt \in PwSalts, keysalt \in KeySalts, send_email \in BOOLEAN,
          id \in DocIds :
          CreateInactiveUser(username, email, password, pwsalt, keysalt, send_email, id)
    \/ DeleteExpiredUsers
    \/ \E id \in DocIds, held \in BOOLEAN, is_active \in BOOLEAN : Save(id, held, is_active)
    \/ \E username \in Usernames, flt \in Filters : GetUser(username, flt)
    \/ \E email \in Emails, flt \in Filters : GetUserByEmail(email, flt)

SpecFind == Init /\ [][NextFind]_vars

\* ------------------------------------------------------------ credentials
\* the password methods of one User object in memory
RawPasswords == {"pw", "pw2", "secret", ""}
SaltDraws == {"5a1f0", "0c3d9", "e77b2"}

\* user.set_password(raw_password)
SetPassword(raw_password, salt) ==
    /\ pwuser' = [pwuser EXCEPT !.password = set_password(raw_password, salt),
                                !.setter = "set_password", !.raw = raw_password,
                                !.op = "set_password", !.arg = raw_password,
                                !.ret = "None"]
    /\ UNCHANGED <<store, objs, now, tz, last, regs, activation, sweep>>

\* user.set_unusable_password()
SetUnusablePassword ==
    /\ pwuser' = [pwuser EXCEPT !.password = set_unusable_password,
                                !.setter = "set_unusable_password", !.raw = "",
                                !.was_unusable = TRUE,
                                !.op = "set_unusable_password", !.arg = "",
                                !.ret = "None"]
    /\ UNCHANGED <<store, objs, now, tz, last, regs, activation, sweep>>

\* user.check_password(raw_password); a password never assigned is None,
\* which has no split
CheckPassword(raw_password) ==
    /\ pwuser' = [pwuser EXCEPT !.op = "check_password", !.arg = raw_password,
                                !.ret = IF pwuser.setter = "none" THEN "AttributeError"
                                        ELSE check_password(raw_password, pwuser.password)]
    /\ UNCHANGED <<store, objs, now, tz, last, regs, activation, sweep>>

\* user.has_usable_password()
HasUsablePassword ==
    /\ pwuser' = [pwuser EXCEPT !.op = "has_usable_password", !.arg = "",
                                !.ret = IF has_usable_password(pwuser.password)
                                        THEN "True" ELSE "False"]
    /\ UNCHANGED <<store, objs, now, tz, last, regs, activation, sweep>>

NextPw ==
    \/ \E raw_password \in RawPasswords, salt \in SaltDraws :
          SetPassword(raw_password, salt)
    \/ SetUnusablePassword
    \/ \E raw_password \in RawPasswords : CheckPassword(raw_password)
    \/ HasUsablePassword

SpecPw == Init /\ [][NextPw]_vars

\* ------------------------------------------- concurrent registrations
\* a variant of the write that refuses a username already stored
document_save_UniqueUsername(s, id, doc) ==
    IF \E i \in DOMAIN s : s[i].username = doc.username THEN s ELSE (id :> doc) @@ s

\* super(User, self).save(): the document is written under its id
document_save(s, id, doc) ==
    (id :> doc) @@ s

\* create_inactive_user of request p up to the read of User.save: the user
\* object is built (lines 62-66) and check_username queries the view
\* (line 30); others counts the records of that username the query saw
RegCheck(p, username, email, password, pwsalt) ==
    /\ regs[p].pc = "idle"
    /\ regs' = [regs EXCEPT ![p] =
                  [pc |-> "checked",
                   user |-> [username |-> username, email |-> email,
                             password |-> set_password(password, pwsalt),
                             is_active |-> FALSE, date_joined |-> now,
                             activation_key |-> NoKey],
                   passed |-> check_username(store, NoId, username),
                   others |-> Cardinality({i \in DOMAIN store :
                                              store[i].username = username})]]
    /\ UNCHANGED <<store, objs, now, tz, last, pwuser, activation, sweep>>

\* the rest of User.save: raise when the check failed (line 31), else write
\* the document (line 33)
RegWrite(p, id) ==
    /\ regs[p].pc = "checked"
    /\ id \in DocIds \ DOMAIN store
    /\ IF regs[p].passed
       THEN /\ store' = document_save(store, id, regs[p].user)
            /\ regs' = [regs EXCEPT ![p] = [pc |-> "saved", user |-> regs[p].user,
                                            others |-> regs[p].others, id |-> id]]
       ELSE /\ store' = store
            /\ regs' = [regs EXCEPT ![p] = [pc |-> "done", ret |-> "Exception",
                                            username |-> regs[p].user.username,
                                            others |-> regs[p].others]]
    /\ UNCHANGED <<objs, now, tz, last, pwuser, activation, sweep>>

\* lines 69-74: create_profile, the activation email, the return
RegReturn(p, keysalt, send_email) ==
    /\ regs[p].pc = "saved"
    /\ regs' = [regs EXCEPT ![p] = [pc |-> "done",
                                    ret |-> IF send_email THEN "NameError" ELSE "User",
                                    username |-> regs[p].user.username,
                                    others |-> regs[p].others]]
    /\ objs' = IF send_email
               THEN [i \in DOMAIN objs \ {regs[p].id} |-> objs[i]]
               ELSE (regs[p].id :> create_profile(regs[p].user, keysalt).activation_key)
                    @@ [i \in DOMAIN objs \ {regs[p].id} |-> objs[i]]
    /\ UNCHANGED <<store, now, tz, last, pwuser, activation, sweep>>

NextReg ==
    \/ \E p \in Requests, username \in Usernames, email \in Emails,
          password \in Passwords, pwsalt \in PwSalts :
          RegCheck(p, username, email, password, pwsalt)
    \/ \E p \in Requests, id \in DocIds : RegWrite(p, id)
    \/ \E p \in Requests, keysalt \in KeySalts, send_email \in BOOLEAN :
          RegReturn(p, keysalt, send_email)
    \/ Tick

SpecReg == Init /\ [][NextReg]_vars

\* ------------------------------------------------------ the periodic sweep
\* the operations with the clock advancing and delete_expired_users run again
\* and again (the scheduled cleanupregistration job); the clock of the model
\* stops at MaxTime, so accounts are created while it can still reach their
\* expiry
CreateInTime(username, email, password, pwsalt, keysalt, send_email, id) ==
    /\ now + expiration_date <= MaxTime + tz
    /\ CreateInactiveUser(username, email, password, pwsalt, keysalt, send_email, id)

\* the inputs of the sweep specification: one salt for the keys
LiveKeySalts == {"0"}
LiveKeys == {sha_hexdigest(s, u) : s \in LiveKeySalts, u \in Usernames} \cup {NoKey}

NextLive ==
    \/ \E username \in Usernames, email \in Emails, password \in Passwords,
          pwsalt \in PwSalts, keysalt \in LiveKeySalts, send_email \in BOOLEAN,
          id \in DocIds :
          CreateInTime(username, email, password, pwsalt, keysalt, send_email, id)
    \/ \E key \in LiveKeys : ActivateUser(key)
    \/ DeleteExpiredUsers
    \/ \E id \in DocIds, held \in BOOLEAN, is_active \in BOOLEAN : Save(id, held, is_active)
    \/ Tick

SpecLive ==
    /\ Init
    /\ [][NextLive]_vars
    /\ WF_vars(Tick)
    /\ WF_vars(DeleteExpiredUsers)

\* ------------------------------ activate_user against delete_expired_users
\* a variant that activates whatever the expiry test says
MayActivate_Always(user, localnow) ==
    TRUE

\* line 45: if not user.activation_key_expired()
MayActivate(user, localnow) ==
    ~activation_key_expired(user, localnow)

\* the order of the rows of users_by_username: key [username, is_active],
\* then document id
UserRank(username) == IF username = "alice" THEN 1 ELSE 2
RowBefore(docs, i, j) ==
    \/ UserRank(docs[i].username) < UserRank(docs[j].username)
    \/ /\ docs[i].username = docs[j].username
       /\ \/ ~docs[i].is_active /\ docs[j].is_active
          \/ docs[i].is_active = docs[j].is_active /\ i <= j
FirstRow(docs, ids) == CHOOSE i \in ids : \A j \in ids : RowBefore(docs, i, j)

\* delete_expired_users, line 134: User.all_users() returns the rows of the
\* view with their documents, as they are when the iterator is first read
SweepRead ==
    /\ sweep.pc = "idle"
    /\ sweep' = [pc |-> "iterating", docs |-> store, todo |-> DOMAIN store,
                 deleted |-> {}]
    /\ UNCHANGED <<store, objs, now, tz, last, pwuser, regs, activation>>

\* lines 135-137 for the next user of the iteration: the tests read the
\* document as it was fetched, user.delete() removes the stored document
SweepUser ==
    /\ sweep.pc = "iterating"
    /\ sweep.todo # {}
    /\ LET id == FirstRow(sweep.docs, sweep.todo)
           user == sweep.docs[id]
       IN  IF ShouldDelete(user, LocalNow)
           THEN IF id \in DOMAIN store
                THEN /\ store' = [i \in DOMAIN store \ {id} |-> store[i]]
                     /\ sweep' = [sweep EXCEPT !.todo = @ \ {id},
                                               !.deleted = @ \cup {id}]
                ELSE \* nothing to delete: the exception ends the run
                     /\ store' = store
                     /\ sweep' = [pc |-> "done", docs |-> sweep.docs, todo |-> {},
                                  deleted |-> sweep.deleted]
           ELSE /\ store' = store
                /\ sweep' = [sweep EXCEPT !.todo = @ \ {id}]
    /\ UNCHANGED <<objs, now, tz, last, pwuser, regs, activation>>

\* the iteration is over
SweepDone ==
    /\ sweep.pc = "iterating"
    /\ sweep.todo = {}
    /\ sweep' = [sweep EXCEPT !.pc = "done"]
    /\ UNCHANGED <<store, objs, now, tz, last, pwuser, regs, activation>>

\* activate_user, lines 38-44: the pattern test and the view query; overlap
\* notes that a sweep had fetched its rows and was still iterating
ActLookup(activation_key) ==
    /\ activation.pc = "idle"
    /\ LET r == users_by_activation_key(store, activation_key)
       IN  IF ~SHA1_RE_search(activation_key) \/ r = {}
           THEN activation' = [pc |-> "done", ret |-> "False", user |-> NoId,
                               overlap |-> sweep.pc = "iterating"]
           ELSE activation' = [pc |-> "found", user |-> MinId(r),
                               doc |-> store[MinId(r)],
                               overlap |-> sweep.pc = "iterating"]
    /\ UNCHANGED <<store, objs, now, tz, last, pwuser, regs, sweep>>

\* lines 45-49: the expiry test on the document as fetched, then User.save
\* (check_username and the write of the activated document, which the
\* database refuses when the document changed or went since it was fetched)
\* and the return
ActSave ==
    /\ activation.pc = "found"
    /\ LET id == activation.user
           activated == [activation.doc EXCEPT !.activation_key = NoKey,
                                               !.is_active = TRUE]
           ret == IF ~MayActivate(activation.doc, LocalNow) THEN "None"
                  ELSE IF ~check_username(store, id, activation.doc.username)
                  THEN "Exception"
                  ELSE IF id \in DOMAIN store /\ store[id] = activation.doc
                  THEN "User" ELSE "ResourceConflict"
       IN  /\ store' = IF ret = "User" THEN [store EXCEPT ![id] = activated] ELSE store
           /\ activation' = [pc |-> "done", ret |-> ret, user |-> id,
                             overlap |-> activation.overlap]
    /\ UNCHANGED <<objs, now, tz, last, pwuser, regs, sweep>>

\* accounts are registered and saved before the two calls start; the clock
\* advances throughout
NextSweep ==
    \/ /\ sweep.pc = "idle"
       /\ activation.pc = "idle"
       /\ \/ \E username \in Usernames, email \in Emails, password \in Passwords,
                pwsalt \in PwSalts, keysalt \in LiveKeySalts, id \in DocIds :
                CreateInactiveUser(username, email, password, pwsalt, keysalt, FALSE, id)
          \/ \E id \in DocIds, held \in BOOLEAN, is_active \in BOOLEAN :
                Save(id, held, is_active)
    \/ SweepRead
    \/ SweepUser
    \/ SweepDone
    \/ \E key \in LiveKeys : ActLookup(key)
    \/ ActSave
    \/ Tick

SpecSweep == Init /\ [][NextSweep]_vars

\* =================================================================== claims
\* the activation window of the specification, in ticks of the UTC clock
Window == Days(ACCOUNT_ACTIVATION_DAYS)

\* expired(user) as the specification states it
SpecExpired(user, t) ==
    user.activation_key = NoKey \/ t >= user.date_joined + Window

\* ^[a-f0-9]{40}$ as the specification states it (the pattern of the source)
IsHex40(key) == Len(key) = 40 /\ \A i \in 1 .. Len(key) : key[i] \in HexChars
MatchesPattern(key) ==
    \/ IsHex40(key)
    \/ Len(key) = 41 /\ key[41] = "\n" /\ IsHex40(SubSeq(key, 1, 40))

\* the keys activate_user is called with that do not match the pattern
NonMatchingKeys == {key \in TestKeys : ~MatchesPattern(key)}

\* results a caller reads as false
Falsy == {"False", "None"}

\* C1 (not settled): activate_user never returns a User at all, so no state
\* shows a call that follows a successful activation.
ActivateNeverReturnsUser ==
    last.op = "activate_user" => last.ret # "User"

\* C2: for an account returned by create_inactive_user, not yet activated and
\* inside its window, activate_user with the key generated for it returns the
\* User and leaves the stored record active and without a key.
C2_ActivatesInsideWindow ==
    [][last'.op = "activate_user" =>
       \A key \in GoodKeys : \A id \in DOMAIN store \cap DOMAIN objs :
        ( /\ objs[id] = key
          /\ \A j \in DOMAIN store \cap DOMAIN objs : objs[j] = key => j = id
          /\ ~store[id].is_active
          /\ now < store[id].date_joined + Window
          /\ ActivateUser(key) )
        => ( /\ last'.ret = "User"
             /\ last'.hit = id
             /\ store'[id].is_active
             /\ store'[id].activation_key = NoKey )]_vars

\* C3: create_inactive_user for a username that one stored record already
\* holds fails with the duplicate-username exception and the store keeps
\* exactly one record of that username.
C3_SecondCreateRejected ==
    [][last'.op = "create_inactive_user" =>
       \A u \in Usernames :
        ( /\ Cardinality({i \in DOMAIN store : store[i].username = u}) = 1
          /\ \E e \in Emails, p \in Passwords, ps \in PwSalts, ks \in KeySalts,
                se \in BOOLEAN, id \in DocIds :
                CreateInactiveUser(u, e, p, ps, ks, se, id) )
        => ( /\ last'.ret = "Exception"
             /\ Cardinality({i \in DOMAIN store' : store'[i].username = u}) = 1 )]_vars

\* C4: activation_key_expired is true of a stored user exactly when its key
\* is absent (already activated) or the window has elapsed.
C4_ExpiredAsSpecified ==
    \A id \in DOMAIN store :
        activation_key_expired(store[id], LocalNow) <=> SpecExpired(store[id], now)

C6_MalformedKeyNoStoreAccess ==
    [][last'.op = "activate_user" =>
       \A key \in NonMatchingKeys :
        ActivateUser(key)
        => ( /\ last'.ret = "False"
             /\ last'.reads = 0
             /\ last'.writes = 0
             /\ store' = store )]_vars

C6_Witness ==
    /\ last.op = "activate_user"
    /\ last.ret = "False"
    /\ last.reads = 0
    /\ store # << >>

\* C7: a run of delete_expired_users removes exactly the stored users that
\* are expired (as specified) and inactive, and leaves the others as they were.
C7_DeletesExactlyExpiredInactive ==
    [][last'.op = "delete_expired_users" =>
        LET gone == {i \in DOMAIN store :
                        SpecExpired(store[i], now) /\ ~store[i].is_active}
        IN  store' = [i \in DOMAIN store \ gone |-> store[i]]]_vars

\* C8: delete_expired_users never deletes an inactive user that holds an
\* unconsumed key while its window has not elapsed.
C8_PendingInsideWindowKept ==
    [][last'.op = "delete_expired_users" =>
        \A id \in DOMAIN store :
            ( /\ ~store[id].is_active
              /\ store[id].activation_key # NoKey
              /\ now < store[id].date_joined + Window )
            => id \in DOMAIN store']_vars

\* C9: delete_expired_users never deletes (nor changes) an active account,
\* whatever its key and however old its date_joined.
C9_ActiveNeverDeleted ==
    [][last'.op = "delete_expired_users" =>
        \A id \in DOMAIN store :
            store[id].is_active => (id \in DOMAIN store' /\ store'[id] = store[id])]_vars

C9_Witness ==
    /\ last.op = "delete_expired_users"
    /\ \E id \in DOMAIN store :
          /\ store[id].is_active
          /\ store[id].activation_key # NoKey
          /\ LocalNow >= store[id].date_joined + Window
    /\ \E id \in DOMAIN store :
          /\ store[id].is_active
          /\ store[id].activation_key = NoKey
          /\ LocalNow >= store[id].date_joined + Window

\* C10: delete_expired_users never deletes an inactive user that has no
\* activation key, however long ago it joined.
C10_KeylessInactiveKept ==
    [][last'.op = "delete_expired_users" =>
        \A id \in DOMAIN store :
            (~store[id].is_active /\ store[id].activation_key = NoKey)
            => id \in DOMAIN store']_vars

\* the stored records of a username, of an email
WithUsername(u) == {i \in DOMAIN store : store[i].username = u}
WithEmail(e) == {i \in DOMAIN store : store[i].email = e}
Actives(ids) == {i \in ids : store[i].is_active}
Inactives(ids) == {i \in ids : ~store[i].is_active}

\* what a lookup with filter flt may return among the records ids, as the
\* specification states it: either prefers an active record
SpecFound(ids, flt, hit) ==
    /\ flt = "None" /\ Actives(ids) # {} /\ Inactives(ids) # {}
          => hit \in Actives(ids)
    /\ flt = "True" => hit = NoId \/ hit \in Actives(ids)
    /\ flt = "False" => hit = NoId \/ hit \in Inactives(ids)

\* the same with either preferring an inactive record
AmendedFound(ids, flt, hit) ==
    /\ flt = "None" /\ Actives(ids) # {} /\ Inactives(ids) # {}
          => hit \in Inactives(ids)
    /\ flt = "True" => hit = NoId \/ hit \in Actives(ids)
    /\ flt = "False" => hit = NoId \/ hit \in Inactives(ids)

\* C11 (as stated): get_user and get_user_by_email with is_active=None return
\* the active record when an active and an inactive record share the username
\* (email); with True or False they return a record of that activity or nothing.
C11_EitherPrefersActive ==
    [][/\ last'.op = "get_user" =>
            \A u \in Usernames : \A f \in Filters :
                GetUser(u, f) => SpecFound(WithUsername(u), f, last'.hit)
       /\ last'.op = "get_user_by_email" =>
            \A e \in Emails : \A f \in Filters :
                GetUserByEmail(e, f) => SpecFound(WithEmail(e), f, last'.hit)]_vars

\* C11 (amended): with is_active=None they return the inactive record when an
\* active and an inactive record share the username (email); with True or
\* False they return a record of that activity or nothing.
C11_EitherPrefersInactive ==
    [][/\ last'.op = "get_user" =>
            \A u \in Usernames : \A f \in Filters :
                GetUser(u, f) => AmendedFound(WithUsername(u), f, last'.hit)
       /\ last'.op = "get_user_by_email" =>
            \A e \in Emails : \A f \in Filters :
                GetUserByEmail(e, f) => AmendedFound(WithEmail(e), f, last'.hit)]_vars

C11_Witness ==
    /\ last.op = "get_user"
    /\ last.flt = "None"
    /\ last.hit \in DOMAIN store
    /\ ~store[last.hit].is_active
    /\ \E j \in DOMAIN store :
          store[j].username = store[last.hit].username /\ store[j].is_active

\* C12: no two stored active users share a username.
C12_ActiveUsernamesUnique ==
    \A i \in DOMAIN store : \A j \in DOMAIN store :
        ( /\ store[i].is_active
          /\ store[j].is_active
          /\ store[i].username = store[j].username )
        => i = j

\* C14: create_inactive_user with send_email set, whose notification step
\* fails, leaves the account it saved in the store (inactive, with the
\* password hash it was given) and still returns the new User.
C14_NotificationFailureNotFatal ==
    [][last'.op = "create_inactive_user" =>
        \A u \in Usernames, e \in Emails, p \in Passwords, ps \in PwSalts,
           ks \in KeySalts, id \in DocIds :
            CreateInactiveUser(u, e, p, ps, ks, TRUE, id)
            => ( /\ id \in DOMAIN store'
                 /\ ~store'[id].is_active
                 /\ store'[id].password = set_password(p, ps)
                 /\ last'.ret = "User" )]_vars

\* C17: every stored account is PENDING (activation key, inactive) or ACTIVE
\* (no activation key, active).
C17_PendingOrActive ==
    \A id \in DOMAIN store :
        \/ store[id].activation_key # NoKey /\ ~store[id].is_active
        \/ store[id].activation_key = NoKey /\ store[id].is_active

\* C18: save of a persisted record is rejected, the store unchanged, when
\* another stored record holds its username, and accepted when none does.
C18_SaveRejectsForeignUsername ==
    [][last'.op = "save" =>
        LET id == last'.hit
            others == {j \in DOMAIN store \ {id} :
                          store[j].username = store[id].username}
        IN  /\ others # {} => (last'.ret = "Exception" /\ store' = store)
            /\ others = {} => last'.ret # "Exception"]_vars

\* C15: after set_password(p), check_password(q) is true exactly when q = p,
\* and the stored value is algorithm$salt$digest with the digest of
\* (algorithm, salt, p).
C15_CheckMatchesSet ==
    /\ (pwuser.op = "check_password" /\ pwuser.setter = "set_password")
          => (pwuser.ret = "True" <=> pwuser.arg = pwuser.raw)
    /\ (pwuser.op = "check_password" /\ pwuser.setter = "set_password")
          => pwuser.ret \in {"True", "False"}
    /\ pwuser.setter = "set_password"
          => \E salt \in SaltDraws :
                pwuser.password =
                    "sha1" \o "$" \o salt \o "$" \o get_hexdigest("sha1", salt, pwuser.raw)

C15_Witness ==
    /\ pwuser.op = "check_password"
    /\ pwuser.setter = "set_password"
    /\ pwuser.ret = "True"
    /\ pwuser.arg = "pw2"

\* C16: has_usable_password is false once set_unusable_password assigned the
\* password, whatever it was before, and true once set_password assigned it.
C16_UsableAfterSetters ==
    pwuser.op = "has_usable_password" =>
        /\ pwuser.setter = "set_unusable_password" => pwuser.ret = "False"
        /\ pwuser.setter = "set_password" => pwuser.ret = "True"

C16_Witness ==
    /\ pwuser.op = "has_usable_password"
    /\ pwuser.setter = "set_password"
    /\ pwuser.was_unusable
    /\ pwuser.ret = "True"

\* C13: the check and the write of save are separate steps: a registration
\* that passed the check writes its record whatever the store holds by then,
\* so two registrations of one username that both checked before either
\* wrote leave two records of that username (C13_Witness).
C13_WriteDoesNotRecheck ==
    [][\A p \in Requests :
        (regs[p].pc = "checked" /\ regs[p].passed /\ regs'[p].pc # "checked")
        => ( /\ regs'[p].pc = "saved"
             /\ regs'[p].id \notin DOMAIN store
             /\ regs'[p].id \in DOMAIN store'
             /\ store'[regs'[p].id].username = regs[p].user.username
             /\ \A i \in DOMAIN store : i \in DOMAIN store' /\ store'[i] = store[i] )]_vars

C13_Witness ==
    /\ \A p \in Requests : regs[p].pc = "done" /\ regs[p].ret = "User"
                           /\ regs[p].others = 0
    /\ regs["r1"].username = regs["r2"].username
    /\ Cardinality({i \in DOMAIN store : store[i].username = regs["r1"].username}) = 2

C20_NoActivatedThenDeleted ==
    ~ ( /\ activation.pc = "done"
        /\ activation.ret = "User"
        /\ sweep.pc \in {"iterating", "done"}
        /\ activation.user \in sweep.deleted )

C20_Witness ==
    /\ activation.pc = "done"
    /\ activation.overlap
    /\ activation.user # NoId
    /\ sweep.pc = "done"
    /\ activation.user \in sweep.deleted
    /\ activation.user \in DOMAIN sweep.docs
    /\ sweep.docs[activation.user].activation_key # NoKey

====
